---------------------------- MODULE Spec2Model ----------------------------
(***************************************************************************)
(* A model of deploy.js: the script that derives a key for every briefing  *)
(* file, merges the keys into root.txt, asks the user two questions and    *)
(* then stages, commits and pushes with git.                               *)
(*                                                                         *)
(* A JavaScript string is a sequence of one-character strings.  A plain    *)
(* JavaScript object is the sequence of its own properties, in the order   *)
(* Object.keys lists them.                                                 *)
(***************************************************************************)
EXTENDS Integers, Sequences, FiniteSets, TLC

VARIABLES
    pc,               \* where the run is
    dirExists,        \* whether the briefings directory exists
    dirList,          \* fs.readdirSync(BRIEFINGS_DIR), with what statSync says
    rootTxt,          \* the file root.txt: [exists, content]
    briefingFiles,    \* main's briefingFiles
    fileToKey,        \* main's fileToKey (the fresh mapping)
    existingEntries,  \* what readRootTxt returned
    updatedEntries,   \* main's updatedEntries (the merged mapping)
    answers,          \* the answers given to the prompts of this run
    prompts,          \* the prompts shown in this run
    gitLog,           \* the commands handed to exec in this run, with outcome
    staged,           \* what this run's git add has staged: [root, files]
    rootReads,        \* how often this run called readRootTxt
    rootWrites,       \* how often this run called writeRootTxt
    stderr,           \* what console.error printed in this run
    exitCode          \* the process' exit status once pc = "exited"

vars == <<pc, dirExists, dirList, rootTxt, briefingFiles, fileToKey,
          existingEntries, updatedEntries, answers, prompts, gitLog, staged,
          rootReads, rootWrites, stderr, exitCode>>

-----------------------------------------------------------------------------
(* Bounds of the model.                                                    *)

\* Longest stem of a generated filename (before the marker and extension).
MaxStem == 3

\* Most entries of the briefings directory.
MaxFiles == 2

-----------------------------------------------------------------------------
(* Characters and strings.                                                 *)

Digits == {"0", "1", "2", "3", "4", "5", "6", "7", "8", "9"}

UpperCase == <<"A", "B", "C", "D", "E", "F", "G", "H", "I", "J", "K", "L", "M", "N", "O", "P", "Q", "R", "S", "T", "U", "V", "W", "X", "Y", "Z">>

LowerCase == <<"a", "b", "c", "d", "e", "f", "g", "h", "i", "j", "k", "l", "m", "n", "o", "p", "q", "r", "s", "t", "u", "v", "w", "x", "y", "z">>

\* The characters \s matches and trim() removes (those a model string holds).
WhiteSpace == {" ", "\t", "\n", "\r", "\f"}

\* The characters "." does not match.
LineTerminators == {"\n", "\r"}

SetMin(S) == CHOOSE x \in S : \A y \in S : x <= y

SetMax(S) == CHOOSE x \in S : \A y \in S : x >= y

toLowerCaseChar(c) ==
    IF \E i \in 1..Len(UpperCase) : UpperCase[i] = c
    THEN LowerCase[CHOOSE i \in 1..Len(UpperCase) : UpperCase[i] = c]
    ELSE c

RECURSIVE toLowerCase(_)
toLowerCase(s) ==
    IF s = <<>> THEN <<>>
    ELSE <<toLowerCaseChar(Head(s))>> \o toLowerCase(Tail(s))

startsWith(s, p) == Len(s) >= Len(p) /\ SubSeq(s, 1, Len(p)) = p

endsWith(s, p) ==
    Len(s) >= Len(p) /\ SubSeq(s, Len(s) - Len(p) + 1, Len(s)) = p

\* String.prototype.trim
trim(s) ==
    LET keep == {i \in 1..Len(s) : s[i] \notin WhiteSpace}
    IN  IF keep = {} THEN <<>> ELSE SubSeq(s, SetMin(keep), SetMax(keep))

\* s.split('\n')
RECURSIVE split(_)
split(s) ==
    LET nl == {i \in 1..Len(s) : s[i] = "\n"}
    IN  IF nl = {} THEN <<s>>
        ELSE <<SubSeq(s, 1, SetMin(nl) - 1)>>
                 \o split(SubSeq(s, SetMin(nl) + 1, Len(s)))

\* lines.join('\n')
RECURSIVE join(_)
join(lines) ==
    IF lines = <<>> THEN <<>>
    ELSE IF Len(lines) = 1 THEN lines[1]
    ELSE lines[1] \o <<"\n">> \o join(Tail(lines))

-----------------------------------------------------------------------------
(* Plain objects: own properties in OrdinaryOwnPropertyKeys order, which   *)
(* is the canonical array indices in ascending numeric order and then the  *)
(* other string keys in the order they were created.                       *)

emptyObject == <<>>

\* The properties a plain object inherits from Object.prototype.
ObjectPrototypeNames ==
    { <<"c", "o", "n", "s", "t", "r", "u", "c", "t", "o", "r">>, <<"_", "_", "p", "r", "o", "t", "o", "_", "_">>, <<"h", "a", "s", "O", "w", "n", "P", "r", "o", "p", "e", "r", "t", "y">>, <<"i", "s", "P", "r", "o", "t", "o", "t", "y", "p", "e", "O", "f">>,
      <<"p", "r", "o", "p", "e", "r", "t", "y", "I", "s", "E", "n", "u", "m", "e", "r", "a", "b", "l", "e">>, <<"t", "o", "L", "o", "c", "a", "l", "e", "S", "t", "r", "i", "n", "g">>, <<"t", "o", "S", "t", "r", "i", "n", "g">>,
      <<"v", "a", "l", "u", "e", "O", "f">>, <<"_", "_", "d", "e", "f", "i", "n", "e", "G", "e", "t", "t", "e", "r", "_", "_">>, <<"_", "_", "d", "e", "f", "i", "n", "e", "S", "e", "t", "t", "e", "r", "_", "_">>,
      <<"_", "_", "l", "o", "o", "k", "u", "p", "G", "e", "t", "t", "e", "r", "_", "_">>, <<"_", "_", "l", "o", "o", "k", "u", "p", "S", "e", "t", "t", "e", "r", "_", "_">> }

DigitOrder == <<"0", "1", "2", "3", "4", "5", "6", "7", "8", "9">>

digitValue(c) == (CHOOSE n \in 1..Len(DigitOrder) : DigitOrder[n] = c) - 1

\* a < b as numbers, for digit strings without leading zeros.
indexLess(a, b) ==
    \/ Len(a) < Len(b)
    \/ /\ Len(a) = Len(b)
       /\ \E i \in 1..Len(a) :
              /\ digitValue(a[i]) < digitValue(b[i])
              /\ \A j \in 1..(i - 1) : a[j] = b[j]

\* A canonical array index: "0", or digits without a leading zero, below
\* 2^32 - 1.
isArrayIndex(k) ==
    /\ k # <<>>
    /\ \A i \in 1..Len(k) : k[i] \in Digits
    /\ (Len(k) > 1 => k[1] # "0")
    /\ indexLess(k, <<"4", "2", "9", "4", "9", "6", "7", "2", "9", "5">>)

ownKeys(obj) == [i \in 1..Len(obj) |-> obj[i].key]

hasOwn(obj, k) == \E i \in 1..Len(obj) : obj[i].key = k

ownValue(obj, k) == obj[CHOOSE i \in 1..Len(obj) : obj[i].key = k].value

\* obj[k] read: the own property, else the inherited one, else undefined.
jsGet(obj, k) ==
    IF hasOwn(obj, k) THEN [kind |-> "string", value |-> ownValue(obj, k)]
    ELSE IF k \in ObjectPrototypeNames THEN [kind |-> "inherited", value |-> <<>>]
    ELSE [kind |-> "undefined", value |-> <<>>]

\* !x
falsy(x) == x.kind = "undefined" \/ (x.kind = "string" /\ x.value = <<>>)

\* Where a new property k goes in the key order.
insertAt(obj, k) ==
    IF isArrayIndex(k)
    THEN LET later == {i \in 1..Len(obj) :
                          \/ ~isArrayIndex(obj[i].key)
                          \/ indexLess(k, obj[i].key)}
         IN  IF later = {} THEN Len(obj) + 1 ELSE SetMin(later)
    ELSE Len(obj) + 1

\* obj[k] = v for a string v.  Object.prototype's __proto__ setter ignores a
\* value that is neither an object nor null, and creates no own property.
jsSet(obj, k, v) ==
    IF k = <<"_", "_", "p", "r", "o", "t", "o", "_", "_">> THEN obj
    ELSE IF hasOwn(obj, k)
    THEN [i \in 1..Len(obj) |->
             IF obj[i].key = k THEN [key |-> k, value |-> v] ELSE obj[i]]
    ELSE LET p == insertAt(obj, k)
         IN  SubSeq(obj, 1, p - 1) \o <<[key |-> k, value |-> v]>>
                 \o SubSeq(obj, p, Len(obj))

\* delete obj[k]
jsDelete(obj, k) == SelectSeq(obj, LAMBDA e : e.key # k)

\* The mapping an object holds, whatever the order of its keys.
asMap(obj) == {<<obj[i].key, obj[i].value>> : i \in 1..Len(obj)}

keySet(obj) == {obj[i].key : i \in 1..Len(obj)}

-----------------------------------------------------------------------------
(* generateKeys                                                            *)

\* filename.replace(/\.[^/.]+$/, ''): the first "." that only characters
\* other than "/" and "." follow, at least one of them, to the end.
filenameNoExt(filename) ==
    LET at == {i \in 1..Len(filename) :
                  /\ filename[i] = "."
                  /\ i < Len(filename)
                  /\ \A j \in (i + 1)..Len(filename) :
                         filename[j] \notin {"/", "."}}
    IN  IF at = {} THEN filename ELSE SubSeq(filename, 1, SetMin(at) - 1)

\* filenameNoExt.replace(/\.thisismy$/, '')
filenameNoExtNoSuffix(filename) ==
    LET s == filenameNoExt(filename)
    IN  IF endsWith(s, <<".", "t", "h", "i", "s", "i", "s", "m", "y">>)
        THEN SubSeq(s, 1, Len(s) - Len(<<".", "t", "h", "i", "s", "i", "s", "m", "y">>))
        ELSE s

\* A variant that drops the lookahead: the match ends at the first hyphen.
baseNameMatchNoLookahead(s) ==
    LET ends == {i \in 1..Len(s) : s[i] = "-"}
    IN  IF ends = {} THEN [matched |-> FALSE, text |-> <<>>]
        ELSE [matched |-> TRUE, text |-> SubSeq(s, 1, SetMin(ends))]

\* s.match(/^[^-]*-(?:[^-]*-)*?(?=\d)/): "[^-]*-" runs through the first
\* hyphen and each "(?:[^-]*-)" through the next one, so a match ends at a
\* hyphen; the lookahead wants a digit right after it; the lazy "*?" takes
\* the first such hyphen.  null when there is none.
baseNameMatch(s) ==
    LET ends == {i \in 1..Len(s) :
                    s[i] = "-" /\ i < Len(s) /\ s[i + 1] \in Digits}
    IN  IF ends = {} THEN [matched |-> FALSE, text |-> <<>>]
        ELSE [matched |-> TRUE, text |-> SubSeq(s, 1, SetMin(ends))]

\* baseNameMatch ? baseNameMatch[0] : filenameNoExtNoSuffix, and then
\* baseName.replace(/-$/, '')
baseName(filename) ==
    LET s == filenameNoExtNoSuffix(filename)
        m == baseNameMatch(s)
        b == IF m.matched THEN m.text ELSE s
    IN  IF endsWith(b, <<"-">>) THEN SubSeq(b, 1, Len(b) - 1) ELSE b

\* The key of one file: `${baseName.toLowerCase()}`
generateKey(filename) == toLowerCase(baseName(filename))

\* files.forEach(filename => { ...; fileToKey[key] = filename; })
RECURSIVE generateKeysFrom(_, _)
generateKeysFrom(obj, files) ==
    IF files = <<>> THEN obj
    ELSE generateKeysFrom(jsSet(obj, generateKey(Head(files)), Head(files)),
                          Tail(files))

generateKeys(files) == generateKeysFrom(emptyObject, files)

-----------------------------------------------------------------------------
(* readRootTxt, updateEntries, formatEntries, writeRootTxt                 *)

\* line.match(/^([^:]+):\s*(.+)$/): group 1 is what precedes the first
\* colon, and is not empty; "\s*" takes the white space after the colon and
\* gives back as much as "(.+)$" needs, which is at least one character and
\* no line terminator up to the end of the line.
lineMatch(line) ==
    LET colons == {i \in 1..Len(line) : line[i] = ":"}
        c      == SetMin(colons)
        rest   == SubSeq(line, c + 1, Len(line))
        nonWs  == {i \in 1..Len(rest) : rest[i] \notin WhiteSpace}
        maxWs  == IF nonWs = {} THEN Len(rest) ELSE SetMin(nonWs) - 1
        starts == {p \in 0..maxWs :
                      /\ p < Len(rest)
                      /\ \A j \in (p + 1)..Len(rest) :
                             rest[j] \notin LineTerminators}
    IN  IF colons = {} THEN [matched |-> FALSE, key |-> <<>>, value |-> <<>>]
        ELSE IF c = 1 \/ starts = {}
        THEN [matched |-> FALSE, key |-> <<>>, value |-> <<>>]
        ELSE [matched |-> TRUE,
              key     |-> SubSeq(line, 1, c - 1),
              value   |-> SubSeq(rest, SetMax(starts) + 1, Len(rest))]

RECURSIVE readLines(_, _)
readLines(entries, lines) ==
    IF lines = <<>> THEN entries
    ELSE LET m == lineMatch(Head(lines))
         IN  readLines(IF m.matched THEN jsSet(entries, m.key, m.value)
                       ELSE entries,
                       Tail(lines))

readRootTxt(file) ==
    IF file.exists THEN readLines(emptyObject, split(file.content))
    ELSE emptyObject

\* Object.assign(target, source)
RECURSIVE objectAssign(_, _)
objectAssign(target, source) ==
    IF source = <<>> THEN target
    ELSE objectAssign(jsSet(target, Head(source).key, Head(source).value),
                      Tail(source))

\* A variant that removes every existing entry and adds the new ones.
updateEntriesReplace(existing, new) == objectAssign(emptyObject, new)

\* Object.keys(existingEntries).forEach(key => {
\*     if (!newEntries[key]) delete existingEntries[key]; })
RECURSIVE removeMissing(_, _, _)
removeMissing(existing, keys, new) ==
    IF keys = <<>> THEN existing
    ELSE removeMissing(IF falsy(jsGet(new, Head(keys)))
                       THEN jsDelete(existing, Head(keys))
                       ELSE existing,
                       Tail(keys), new)

updateEntries(existing, new) ==
    objectAssign(removeMissing(existing, ownKeys(existing), new), new)

\* Object.entries(entries).map(([key, value]) => `${key}: ${value}`).join('\n')
formatEntries(entries) ==
    join([i \in 1..Len(entries) |->
             entries[i].key \o <<":", " ">> \o entries[i].value])

writeRootTxt(entries) == [exists |-> TRUE, content |-> formatEntries(entries)]

noFile == [exists |-> FALSE, content |-> <<>>]

-----------------------------------------------------------------------------
(* The inputs.                                                             *)

\* The characters of a generated stem: a lower and an upper case letter, a
\* digit, the hyphen, the dot, the colon and the space.
StemChars == {"a", "B", "2", "-", ".", ":", " "}

Stems == UNION {[1..n -> StemChars] : n \in 0..MaxStem}

Markers == {<<>>, <<".", "t", "h", "i", "s", "i", "s", "m", "y">>}

Extensions == {<<>>, <<".", "p">>}

\* The names the documentation gives as examples.
ExampleNames ==
    { <<"d", "a", "i", "l", "y", "-", "b", "r", "i", "e", "f", "i", "n", "g", "-", "2", "0", "2", "4", "0", "5", "0", "1", ".", "p", "d", "f">>, <<"n", "o", "t", "e", "s", ".", "t", "h", "i", "s", "i", "s", "m", "y", ".", "t", "x", "t">>,
      <<"r", "e", "p", "o", "r", "t", "2", "0", "2", "4", ".", "p", "d", "f">>, <<"v", "2", "-", "r", "e", "p", "o", "r", "t", "-", "2", "0", "2", "4", ".", "p", "d", "f">>, <<"-", "2", "0", "2", "4", ".", "p", "d", "f">>,
      <<"2", "0", "2", "4", ".", "p", "d", "f">>, <<"r", "e", "p", "o", "r", "t", "-", "2", "0", "2", "4", "0", "1", "0", "1", ".", "p", "d", "f">>, <<"_", "_", "p", "r", "o", "t", "o", "_", "_", ".", "t", "x", "t">>,
      <<"c", "o", "n", "s", "t", "r", "u", "c", "t", "o", "r", ".", "t", "x", "t">> }

\* main keeps the names that do not start with "." (and readdir gives no
\* empty name).
isBriefingName(name) == name # <<>> /\ ~startsWith(name, <<".">>)

Filenames ==
    {f \in {s \o m \o e : s \in Stems, m \in Markers, e \in Extensions}
              \cup ExampleNames : isBriefingName(f)}

hasDigit(s) == \E i \in 1..Len(s) : s[i] \in Digits

hasColon(s) == \E i \in 1..Len(s) : s[i] = ":"

-----------------------------------------------------------------------------
(* The inputs of a run.                                                    *)

file(name) == [name |-> name, isFile |-> TRUE]

directory(name) == [name |-> name, isFile |-> FALSE]

\* What the briefings directory may hold: briefing files (two pairs of which
\* derive the same key), a dot file and a subdirectory.
DirEntries ==
    { file(<<"r", "-", "1", ".", "p">>), file(<<"r", "-", "2", ".", "p">>), file(<<"n", ".", "t">>), file(<<"7", ".", "p">>),
      file(<<"_", "_", "p", "r", "o", "t", "o", "_", "_", "-", "1", ".", "p">>), file(<<"_", "_", "p", "r", "o", "t", "o", "_", "_", "-", "2", ".", "p">>),
      file(<<".", "d">>), directory(<<"s", "u", "b">>) }

\* readdirSync's answers: the entries in any order.
Listings ==
    {l \in UNION {[1..n -> DirEntries] : n \in 0..MaxFiles} :
        \A i, j \in 1..Len(l) : i # j => l[i].name # l[j].name}

\* What root.txt may hold after an edit by hand.
RootFiles ==
    { noFile,
      [exists |-> TRUE, content |-> <<"n", ":", " ", "o", "l", "d", ".", "t", "\n", "r", ":", " ", "r", "-", "0", ".", "p">>],
      [exists |-> TRUE, content |-> <<"z", "z", ":", " ", "g", "o", "n", "e", ".", "p", "\n", "n", "o", "t", " ", "a", "n", " ", "e", "n", "t", "r", "y", "\n", "r", ":", " ", "r", "-", "1", ".", "p">>],
      [exists |-> TRUE, content |-> <<"c", "o", "n", "s", "t", "r", "u", "c", "t", "o", "r", ":", " ", "x", ".", "p", "\n", "7", ":", " ", "7", ".", "p">>],
      [exists |-> TRUE, content |-> <<"n", ":", " ", "n", ".", "t", "\n", "3", ":", " ", "3", ".", "p">>] }

\* What the user may type at a prompt.
Answers == { <<"y">>, <<"Y", "E", "S">>, <<" ", "y", "e", "s", " ">>, <<"n", "o">>, <<>>, <<"y", "e", "a", "h">> }

-----------------------------------------------------------------------------
(* main                                                                    *)

freshRun ==
    /\ pc = "start"
    /\ briefingFiles = <<>>
    /\ fileToKey = emptyObject
    /\ existingEntries = emptyObject
    /\ updatedEntries = emptyObject
    /\ answers = <<>>
    /\ prompts = <<>>
    /\ gitLog = <<>>
    /\ staged = [root |-> noFile, files |-> <<>>]
    /\ rootReads = 0
    /\ rootWrites = 0
    /\ stderr = <<>>
    /\ exitCode = 0

Init ==
    /\ freshRun
    /\ dirExists \in BOOLEAN
    /\ dirList \in IF dirExists THEN Listings ELSE {<<>>}
    /\ rootTxt = noFile

\* process.exit(code), or the end of main with nothing left to wait for.
exit(code) == pc' = "exited" /\ exitCode' = code

\* readdirSync(...).filter(file => !file.startsWith('.') && statSync(...).isFile())
listBriefingFiles(list) ==
    LET kept == SelectSeq(list,
                    LAMBDA e : ~startsWith(e.name, <<".">>) /\ e.isFile)
    IN  [i \in 1..Len(kept) |-> kept[i].name]

\* A variant that writes root.txt before it looks for the directory.
MissingDirAfterWrite ==
    /\ pc = "start"
    /\ ~dirExists
    /\ rootTxt' = writeRootTxt(updateEntries(readRootTxt(rootTxt), emptyObject))
    /\ rootReads' = rootReads + 1
    /\ rootWrites' = rootWrites + 1
    /\ stderr' = Append(stderr, "Error: The briefings directory does not exist.")
    /\ exit(1)
    /\ UNCHANGED <<dirExists, dirList, briefingFiles, fileToKey,
                   existingEntries, updatedEntries, answers, prompts, gitLog,
                   staged>>

\* main, lines 16-19: the briefings directory does not exist.
MissingDir ==
    /\ pc = "start"
    /\ ~dirExists
    /\ stderr' = Append(stderr, "Error: The briefings directory does not exist.")
    /\ exit(1)
    /\ UNCHANGED <<dirExists, dirList, rootTxt, briefingFiles, fileToKey,
                   existingEntries, updatedEntries, answers, prompts, gitLog,
                   staged, rootReads, rootWrites>>

\* main, lines 21-44, up to the first question of userInteraction.
\* existingEntries keeps what readRootTxt returned; updateEntries changes that
\* object in place, and the result is updatedEntries.
Prepare ==
    /\ pc = "start"
    /\ dirExists
    /\ briefingFiles' = listBriefingFiles(dirList)
    /\ fileToKey' = generateKeys(briefingFiles')
    /\ existingEntries' = readRootTxt(rootTxt)
    /\ rootReads' = rootReads + 1
    /\ updatedEntries' = updateEntries(existingEntries', fileToKey')
    /\ rootTxt' = writeRootTxt(updatedEntries')
    /\ rootWrites' = rootWrites + 1
    /\ prompts' = Append(prompts, "edit")
    /\ pc' = "prompt_edit"
    /\ UNCHANGED <<dirExists, dirList, answers, gitLog, staged, stderr,
                   exitCode>>

-----------------------------------------------------------------------------
(* userInteraction                                                         *)

sameLetter(c, l) == toLowerCaseChar(c) = l

\* A variant that only looks at the first letter: /^y/i
affirmativeFirstLetter(answer) ==
    LET t == trim(answer) IN Len(t) >= 1 /\ sameLetter(t[1], "y")

\* /^y(es)?$/i.test(answer.trim())
affirmative(answer) ==
    LET t == trim(answer)
    IN  /\ Len(t) >= 1
        /\ sameLetter(t[1], "y")
        /\ \/ Len(t) = 1
           \/ Len(t) = 3 /\ sameLetter(t[2], "e") /\ sameLetter(t[3], "s")

\* The answer to "Do you want to manually edit root.txt before deploying?"
AnswerEdit ==
    /\ pc = "prompt_edit"
    /\ \E a \in Answers :
          /\ answers' = Append(answers, a)
          /\ IF affirmative(a)
             THEN exit(0) /\ UNCHANGED prompts
             ELSE /\ prompts' = Append(prompts, "deploy")
                  /\ pc' = "prompt_deploy"
                  /\ UNCHANGED exitCode
    /\ UNCHANGED <<dirExists, dirList, rootTxt, briefingFiles, fileToKey,
                   existingEntries, updatedEntries, gitLog, staged, rootReads,
                   rootWrites, stderr>>

\* The answer to "Do you want to deploy?"; main calls deployChanges when
\* userInteraction returns true.
AnswerDeploy ==
    /\ pc = "prompt_deploy"
    /\ \E a \in Answers :
          /\ answers' = Append(answers, a)
          /\ IF affirmative(a)
             THEN pc' = "git_version" /\ UNCHANGED exitCode
             ELSE exit(0)
    /\ UNCHANGED <<dirExists, dirList, rootTxt, briefingFiles, fileToKey,
                   existingEntries, updatedEntries, prompts, gitLog, staged,
                   rootReads, rootWrites, stderr>>

-----------------------------------------------------------------------------
(* deployChanges: every exec either succeeds or rejects.                   *)

command(cmd, path, ok) == [cmd |-> cmd, path |-> path, ok |-> ok]

\* The catch of deployChanges rethrows and main's catch logs and exits.
deploymentFailed ==
    /\ stderr' = Append(stderr, "An error occurred: Deployment failed")
    /\ exit(1)

\* await exec('git --version')
GitVersion ==
    /\ pc = "git_version"
    /\ \E ok \in BOOLEAN :
          /\ gitLog' = Append(gitLog, command("version", <<>>, ok))
          /\ IF ok
             THEN pc' = "git_add_root" /\ UNCHANGED <<stderr, exitCode>>
             ELSE deploymentFailed
    /\ UNCHANGED <<dirExists, dirList, rootTxt, briefingFiles, fileToKey,
                   existingEntries, updatedEntries, answers, prompts, staged,
                   rootReads, rootWrites>>

\* await exec(`git add "${rootTxtPath}"`)
GitAddRoot ==
    /\ pc = "git_add_root"
    /\ \E ok \in BOOLEAN :
          /\ gitLog' = Append(gitLog, command("add", <<"r", "o", "o", "t", ".", "t", "x", "t">>, ok))
          /\ IF ok
             THEN /\ staged' = [staged EXCEPT !.root = rootTxt]
                  /\ pc' = IF briefingFiles = <<>> THEN "git_commit"
                           ELSE "git_add_file"
                  /\ UNCHANGED <<stderr, exitCode>>
             ELSE deploymentFailed /\ UNCHANGED staged
    /\ UNCHANGED <<dirExists, dirList, rootTxt, briefingFiles, fileToKey,
                   existingEntries, updatedEntries, answers, prompts,
                   rootReads, rootWrites>>

\* for (const file of briefingFiles) await exec(`git add "${filePath}"`):
\* one turn of the loop.  Two commands precede the loop.
GitAddFile ==
    /\ pc = "git_add_file"
    /\ LET i == Len(gitLog) - 1
       IN  \E ok \in BOOLEAN :
              /\ gitLog' = Append(gitLog,
                               command("add", <<"b", "r", "i", "e", "f", "i", "n", "g", "s", "/">> \o briefingFiles[i], ok))
              /\ IF ok
                 THEN /\ staged' = [staged EXCEPT
                                       !.files = Append(@, briefingFiles[i])]
                      /\ pc' = IF i = Len(briefingFiles) THEN "git_commit"
                               ELSE "git_add_file"
                      /\ UNCHANGED <<stderr, exitCode>>
                 ELSE deploymentFailed /\ UNCHANGED staged
    /\ UNCHANGED <<dirExists, dirList, rootTxt, briefingFiles, fileToKey,
                   existingEntries, updatedEntries, answers, prompts,
                   rootReads, rootWrites>>

\* A variant that goes on to push when the commit fails.
GitCommitIgnoringFailure ==
    /\ pc = "git_commit"
    /\ \E ok \in BOOLEAN :
          /\ gitLog' = Append(gitLog, command("commit", <<>>, ok))
          /\ pc' = "git_push"
    /\ UNCHANGED <<dirExists, dirList, rootTxt, briefingFiles, fileToKey,
                   existingEntries, updatedEntries, answers, prompts, staged,
                   rootReads, rootWrites, stderr, exitCode>>

\* await exec(`git commit -m "${commitMessage}"`)
GitCommit ==
    /\ pc = "git_commit"
    /\ \E ok \in BOOLEAN :
          /\ gitLog' = Append(gitLog, command("commit", <<>>, ok))
          /\ IF ok
             THEN pc' = "git_push" /\ UNCHANGED <<stderr, exitCode>>
             ELSE deploymentFailed
    /\ UNCHANGED <<dirExists, dirList, rootTxt, briefingFiles, fileToKey,
                   existingEntries, updatedEntries, answers, prompts, staged,
                   rootReads, rootWrites>>

\* await exec('git push'), the last step
GitPush ==
    /\ pc = "git_push"
    /\ \E ok \in BOOLEAN :
          /\ gitLog' = Append(gitLog, command("push", <<>>, ok))
          /\ IF ok
             THEN exit(0) /\ UNCHANGED stderr
             ELSE deploymentFailed
    /\ UNCHANGED <<dirExists, dirList, rootTxt, briefingFiles, fileToKey,
                   existingEntries, updatedEntries, answers, prompts, staged,
                   rootReads, rootWrites>>

-----------------------------------------------------------------------------
(* Between two runs: the user edits root.txt by hand and runs the script   *)
(* again.                                                                  *)

HandEdit ==
    /\ pc = "exited"
    /\ rootTxt' \in RootFiles \ {rootTxt}
    /\ UNCHANGED <<pc, dirExists, dirList, briefingFiles, fileToKey,
                   existingEntries, updatedEntries, answers, prompts, gitLog,
                   staged, rootReads, rootWrites, stderr, exitCode>>

Rerun ==
    /\ pc = "exited"
    /\ pc' = "start"
    /\ briefingFiles' = <<>>
    /\ fileToKey' = emptyObject
    /\ existingEntries' = emptyObject
    /\ updatedEntries' = emptyObject
    /\ answers' = <<>>
    /\ prompts' = <<>>
    /\ gitLog' = <<>>
    /\ staged' = [root |-> noFile, files |-> <<>>]
    /\ rootReads' = 0
    /\ rootWrites' = 0
    /\ stderr' = <<>>
    /\ exitCode' = 0
    /\ UNCHANGED <<dirExists, dirList, rootTxt>>

Next ==
    \/ MissingDir
    \/ Prepare
    \/ AnswerEdit
    \/ AnswerDeploy
    \/ GitVersion
    \/ GitAddRoot
    \/ GitAddFile
    \/ GitCommit
    \/ GitPush
    \/ HandEdit
    \/ Rerun

Spec == Init /\ [][Next]_vars

-----------------------------------------------------------------------------
(* Claims about a run.                                                     *)

\* Prepare has run: the mappings of this run are there.
merged == rootWrites = 1

derivedKeys == {generateKey(briefingFiles[i]) : i \in 1..Len(briefingFiles)}

\* C3: the merged mapping is the fresh mapping, key for key and value for
\* value, so that the store holds no entry but for a derived key of the
\* enumerated files.
C3_MergedIsFresh ==
    merged =>
        /\ keySet(updatedEntries) = keySet(fileToKey)
        /\ asMap(updatedEntries) = asMap(fileToKey)
        /\ keySet(updatedEntries) \subseteq derivedKeys

entriesOf(obj, k) == {i \in 1..Len(obj) : obj[i].key = k}

lastFileOf(k) ==
    briefingFiles[SetMax({i \in 1..Len(briefingFiles) :
                             generateKey(briefingFiles[i]) = k})]

\* C5: a key that two or more enumerated files derive has exactly one entry
\* in the fresh mapping, and in the store after the merge, whose value is the
\* last of these files.
C5_LastFileWins ==
    merged =>
        \A i, j \in 1..Len(briefingFiles) :
            (i < j /\ generateKey(briefingFiles[i]) = generateKey(briefingFiles[j]))
            => LET k == generateKey(briefingFiles[i])
               IN  /\ Cardinality(entriesOf(fileToKey, k)) = 1
                   /\ jsGet(fileToKey, k).value = lastFileOf(k)
                   /\ Cardinality(entriesOf(updatedEntries, k)) = 1
                   /\ jsGet(updatedEntries, k).value = lastFileOf(k)

\* The answer is "y" or "yes" in any letter case, white space around it aside.
isYes(answer) == toLowerCase(trim(answer)) \in { <<"y">>, <<"y", "e", "s">> }

deploying ==
    \/ gitLog # <<>>
    \/ pc \in {"git_version", "git_add_root", "git_add_file", "git_commit",
               "git_push"}

\* C6: git runs only after a first answer that is not a yes and a second
\* answer that is; a yes to the first prompt ends the run before the second
\* prompt, any other answer than a yes to the second ends it, both without a
\* git command.
C6_GitOnlyAfterNoThenYes ==
    /\ deploying =>
          Len(answers) = 2 /\ ~isYes(answers[1]) /\ isYes(answers[2])
    /\ (Len(answers) >= 1 /\ isYes(answers[1])) =>
          pc = "exited" /\ Len(answers) = 1 /\ prompts = <<"edit">> /\ ~deploying
    /\ (Len(answers) = 2 /\ ~isYes(answers[2])) =>
          pc = "exited" /\ ~deploying

\* The deployment goes on after "yeah" at the first and " yes " at the second
\* prompt.
C6_Witness ==
    /\ gitLog # <<>>
    /\ answers = << <<"y", "e", "a", "h">>, <<" ", "y", "e", "s", " ">> >>

\* The commands of a deployment, in order.
deployOrder ==
    << [cmd |-> "version", path |-> <<>>],
       [cmd |-> "add", path |-> <<"r", "o", "o", "t", ".", "t", "x", "t">>] >>
    \o [i \in 1..Len(briefingFiles) |->
           [cmd |-> "add", path |-> <<"b", "r", "i", "e", "f", "i", "n", "g", "s", "/">> \o briefingFiles[i]]]
    \o << [cmd |-> "commit", path |-> <<>>],
          [cmd |-> "push", path |-> <<>>] >>

\* C7: the commands run are a prefix of: git --version, add root.txt, add
\* every briefing file in enumeration order, commit, push; only the last one
\* run can have failed, and then the run has ended with status 1 and the
\* deployment error logged; what the successful adds staged stays staged.
C7_DeployStepsInOrder ==
    /\ Len(gitLog) <= Len(deployOrder)
    /\ \A i \in 1..Len(gitLog) :
          /\ gitLog[i].cmd = deployOrder[i].cmd
          /\ gitLog[i].path = deployOrder[i].path
          /\ i < Len(gitLog) => gitLog[i].ok
    /\ (gitLog # <<>> /\ ~gitLog[Len(gitLog)].ok) =>
          /\ pc = "exited"
          /\ exitCode = 1
          /\ stderr = <<"An error occurred: Deployment failed">>
    /\ staged.root.exists <=> (Len(gitLog) >= 2 /\ gitLog[2].ok)
    /\ staged.files =
          [i \in 1..Cardinality({j \in 3..Len(gitLog) :
                                    gitLog[j].cmd = "add" /\ gitLog[j].ok})
              |-> briefingFiles[i]]

\* The commit failed after root.txt and two briefing files were staged.
C7_Witness ==
    /\ pc = "exited"
    /\ Len(gitLog) = 5
    /\ gitLog[5].cmd = "commit"
    /\ ~gitLog[5].ok
    /\ staged.root.exists
    /\ Len(staged.files) = 2

\* C8: without the briefings directory the run ends at once with status 1,
\* root.txt neither read nor written, no prompt shown and no git command run;
\* a run that found the directory and saw no command fail ends with status 0.
C8_ExitStatus ==
    /\ (~dirExists /\ pc # "start") =>
          /\ pc = "exited"
          /\ exitCode = 1
          /\ rootReads = 0
          /\ rootWrites = 0
          /\ prompts = <<>>
          /\ gitLog = <<>>
    /\ (pc = "exited" /\ dirExists /\ \A i \in 1..Len(gitLog) : gitLog[i].ok)
          => exitCode = 0

\* A run without the directory has ended with status 1 and has left alone
\* the root.txt the user had written.
C8_Witness ==
    /\ ~dirExists
    /\ pc = "exited"
    /\ exitCode = 1
    /\ stderr = <<"Error: The briefings directory does not exist.">>
    /\ rootTxt.exists

position(seq, k) == CHOOSE i \in 1..Len(seq) : seq[i] = k

retained(k) == k \in keySet(existingEntries)

firstProduced(k) ==
    SetMin({i \in 1..Len(briefingFiles) : generateKey(briefingFiles[i]) = k})

\* Retained keys first and in their previous order, then the new keys in the
\* order generateKeys first produced them.
inInsertionOrder(a, b) ==
    \/ retained(a) /\ ~retained(b)
    \/ /\ retained(a) /\ retained(b)
       /\ position(ownKeys(existingEntries), a)
              < position(ownKeys(existingEntries), b)
    \/ /\ ~retained(a) /\ ~retained(b)
       /\ firstProduced(a) < firstProduced(b)

\* The lines of root.txt are the entries of the merged mapping, in its order.
writtenInKeyOrder ==
    LET lines == split(rootTxt.content)
    IN  /\ updatedEntries = <<>> => rootTxt.content = <<>>
        /\ updatedEntries # <<>> =>
              /\ Len(lines) = Len(updatedEntries)
              /\ \A i \in 1..Len(lines) :
                    lines[i] = updatedEntries[i].key \o <<":", " ">>
                                   \o updatedEntries[i].value

C10_StagedIsFresh ==
    /\ rootWrites <= 1
    /\ (dirExists /\ pc # "start") => rootWrites = 1
    /\ prompts # <<>> => rootWrites = 1
    /\ staged.root.exists =>
          /\ staged.root = writeRootTxt(updatedEntries)
          /\ asMap(updatedEntries) = asMap(fileToKey)

-----------------------------------------------------------------------------
(* The functions on their own: generateKeys on one name, the mapping       *)
(* written with writeRootTxt and read back with readRootTxt.               *)

idle == /\ dirExists = TRUE
        /\ dirList = <<>>
        /\ updatedEntries = emptyObject
        /\ answers = <<>>
        /\ prompts = <<>>
        /\ gitLog = <<>>
        /\ staged = [root |-> noFile, files |-> <<>>]
        /\ rootReads = 0
        /\ rootWrites = 0
        /\ stderr = <<>>
        /\ exitCode = 0

InitKeys ==
    /\ idle
    /\ pc = "keys_start"
    /\ briefingFiles \in {<<f>> : f \in Filenames}
    /\ fileToKey = emptyObject
    /\ existingEntries = emptyObject
    /\ rootTxt = noFile

UnchangedIdle ==
    UNCHANGED <<dirExists, dirList, updatedEntries, answers, prompts, gitLog,
                staged, rootReads, rootWrites, stderr, exitCode>>

KeysGenerate ==
    /\ pc = "keys_start"
    /\ fileToKey' = generateKeys(briefingFiles)
    /\ pc' = "keys_done"
    /\ UNCHANGED <<briefingFiles, existingEntries, rootTxt>>
    /\ UnchangedIdle

KeysWrite ==
    /\ pc = "keys_done"
    /\ rootTxt' = writeRootTxt(fileToKey)
    /\ pc' = "keys_written"
    /\ UNCHANGED <<briefingFiles, fileToKey, existingEntries>>
    /\ UnchangedIdle

KeysRead ==
    /\ pc = "keys_written"
    /\ existingEntries' = readRootTxt(rootTxt)
    /\ pc' = "keys_read"
    /\ UNCHANGED <<briefingFiles, fileToKey, rootTxt>>
    /\ UnchangedIdle

NextKeys == KeysGenerate \/ KeysWrite \/ KeysRead

SpecKeys == InitKeys /\ [][NextKeys]_vars

-----------------------------------------------------------------------------
(* Claims about generateKeys.                                              *)

\* The name without its final extension: what precedes the last dot, when
\* something follows that dot.
withoutFinalExtension(s) ==
    LET dots == {i \in 1..Len(s) : s[i] = "."}
    IN  IF dots = {} \/ SetMax(dots) = Len(s) THEN s
        ELSE SubSeq(s, 1, SetMax(dots) - 1)

withoutMarker(s) ==
    IF endsWith(s, <<".", "t", "h", "i", "s", "i", "s", "m", "y">>)
    THEN SubSeq(s, 1, Len(s) - Len(<<".", "t", "h", "i", "s", "i", "s", "m", "y">>))
    ELSE s

stripped(filename) == withoutMarker(withoutFinalExtension(filename))

withoutOneTrailingHyphen(s) ==
    IF s # <<>> /\ s[Len(s)] = "-" THEN SubSeq(s, 1, Len(s) - 1) ELSE s

beforeFirstDigit(s) ==
    LET d == {i \in 1..Len(s) : s[i] \in Digits}
    IN  IF d = {} THEN s ELSE SubSeq(s, 1, SetMin(d) - 1)

\* C1: a file whose name holds a digit is recorded under the lower-cased
\* part of the stripped name before its first digit, one trailing hyphen
\* removed.
C1_KeyIsPrefixBeforeFirstDigit ==
    pc = "keys_done" =>
        \A i \in 1..Len(fileToKey) :
            hasDigit(fileToKey[i].value) =>
                fileToKey[i].key =
                    toLowerCase(withoutOneTrailingHyphen(
                        beforeFirstDigit(stripped(fileToKey[i].value))))

\* C2 as stated: a file whose name holds no digit is recorded under the
\* lower-cased stripped name, nothing else changed.
C2_KeyIsStrippedName ==
    pc = "keys_done" =>
        \A i \in 1..Len(fileToKey) :
            ~hasDigit(fileToKey[i].value) =>
                fileToKey[i].key = toLowerCase(stripped(fileToKey[i].value))

\* C2 as amended: a file whose name holds no digit is recorded under the
\* lower-cased stripped name with one trailing hyphen removed.
C2_KeyIsStrippedNameLessHyphen ==
    pc = "keys_done" =>
        \A i \in 1..Len(fileToKey) :
            ~hasDigit(fileToKey[i].value) =>
                fileToKey[i].key =
                    toLowerCase(withoutOneTrailingHyphen(
                        stripped(fileToKey[i].value)))

\* A digit-free name with an upper case letter, a trailing hyphen, the marker
\* and an extension has been given its key.
C2_Witness ==
    /\ pc = "keys_done"
    /\ \E i \in 1..Len(fileToKey) :
           /\ fileToKey[i].value = <<"a", "B", "-", ".", "t", "h", "i", "s", "i", "s", "m", "y", ".", "p">>
           /\ fileToKey[i].key = <<"a", "b">>

\* C4: a mapping without a colon in any key, written and read back, is the
\* same mapping.
C4_RoundTrip ==
    (pc = "keys_read" /\ \A k \in keySet(fileToKey) : ~hasColon(k)) =>
        asMap(existingEntries) = asMap(fileToKey)

=============================================================================
